---------------------------- MODULE Spec2Model ----------------------------
(***************************************************************************)
(* Model of src/src/optimizer.cpp of the Caide C++ inliner: one call of    *)
(* Optimizer::doOptimize, the diagnostics gathered by ErrorCollector while *)
(* the front end runs, and the passes of                                   *)
(* OptimizerConsumer::HandleTranslationUnit, step by step.                 *)
(*                                                                         *)
(* Strings are sequences of string tokens; a declaration is a number (its  *)
(* pointer identity), the order of which is not the order of the pointers. *)
(***************************************************************************)
EXTENDS Integers, Sequences, FiniteSets, TLC

\* Number of lexical declarations of the translation unit.
NumDecls == 3
\* Largest number of edges the Dependency Collector records.
MaxEdges == 3
\* Largest number of diagnostics the front end delivers in one run.
MaxDiags == 2
\* Largest number of delayed-parsed template functions.
MaxDelayed == 1
\* The mark and expansion counters saturate here.
MaxCount == 2

Decls == 1..NumDecls

\* clang::DiagnosticsEngine::Level, in increasing order.
Levels == <<"Ignored", "Note", "Remark", "Warning", "Error", "Fatal">>

LevelRank(l) == CHOOSE i \in 1..Len(Levels) : Levels[i] = l

\* The diagnostics the front end may deliver: level, whether the diagnostic
\* has a source manager, its printed location and its formatted text.
DiagInputs ==
    { [level |-> "Warning", hasSM |-> TRUE,  loc |-> "a.cpp:1:5", text |-> "unused variable"],
      [level |-> "Error",   hasSM |-> TRUE,  loc |-> "a.cpp:2:1", text |-> "unknown type name"],
      [level |-> "Fatal",   hasSM |-> FALSE, loc |-> "",          text |-> "file not found"] }

VARIABLES
    pc,                     \* position in doOptimize / HandleTranslationUnit
    diagSuppress,           \* DiagnosticsEngine: suppress-all-diagnostics flag
    priorSuppress,          \* history: the flag when doOptimize started
    suppressAll,            \* HandleTranslationUnit: the saved flag
    errors,                 \* ErrorCollector::errors
    reported,               \* history: every diagnostic delivered to HandleDiagnostic
    clearedAt,              \* history: Len(reported) at the last clear()
    decls,                  \* lexical declarations of the main file
    canon,                  \* Decl::getCanonicalDecl
    nonImplicitDecls,       \* srcInfo.nonImplicitDecls
    uses,                   \* srcInfo.uses: the dependency graph
    collected,              \* history: srcInfo.uses as the collector left it
    declsToKeep,            \* srcInfo.declsToKeep: the root set
    delayedParsedFunctions, \* srcInfo.delayedParsedFunctions
    lateIdx,                \* number of delayed functions parsed so far
    queue,                  \* the set<Decl*> of the BFS
    used,                   \* the Used Set
    markCount,              \* history: times a node was inserted into used
    expandCount,            \* history: times a node's edges were put in the queue
    removedDecls,           \* the Removed-Declarations Set
    edits,                  \* edits scheduled in the SmartRewriter
    editLog,                \* history: which pass scheduled an edit, and when
    applied,                \* whether applyChanges ran
    hasRewriteBuf,          \* getRewriteBufferFor(main file) is not null
    rewriteBuf,             \* content of that buffer
    bufferInvalid,          \* the 'invalid' flag getBufferData reported
    result,                 \* doOptimize's local 'result', shared with the consumer
    passes,                 \* history: the passes run, in order
    ret,                    \* value of tool.run
    outcome,                \* "running", "returned" or "threw"
    returned,               \* <<s>> when doOptimize returned s, else <<>>
    message,                \* what() of the exception thrown
    run,                    \* 1: the run on the input, 2: the run on its output
    usedRun1,               \* history: the Used Set of run 1
    rootsRun1               \* history: the root set of run 1

vars ==
    << pc, diagSuppress, priorSuppress, suppressAll, errors, reported, clearedAt, decls, canon,
       nonImplicitDecls, uses, collected, declsToKeep, delayedParsedFunctions,
       lateIdx, queue, used, markCount, expandCount, removedDecls, edits, editLog,
       applied, hasRewriteBuf, rewriteBuf, bufferInvalid, result, passes, ret,
       outcome, returned, message, run, usedRun1, rootsRun1 >>

diagVars == << errors, reported, clearedAt >>

srcVars == << decls, canon, nonImplicitDecls, collected, declsToKeep,
              delayedParsedFunctions >>

bfsVars == << queue, used, markCount, expandCount >>

rewriteVars == << edits, editLog, applied, hasRewriteBuf, rewriteBuf, bufferInvalid >>

endVars == << ret, outcome, returned, message >>

runVars == << run, usedRun1, rootsRun1, priorSuppress >>

-----------------------------------------------------------------------------
(* Text *)

\* Source text of lexical declaration d.
DeclText(d) == "decl" \o ToString(d)

\* Source text of the conditional-compilation block of the main file.
PPBlock == "#if 0 ... #endif"

RECURSIVE DeclTexts(_)
DeclTexts(n) == IF n = 0 THEN <<>> ELSE Append(DeclTexts(n - 1), DeclText(n))

\* The main file: its declarations in order, then a preprocessor block.
OriginalText == Append(DeclTexts(NumDecls), PPBlock)

RECURSIVE Flatten(_)
Flatten(ss) == IF ss = <<>> THEN <<>> ELSE Head(ss) \o Flatten(Tail(ss))

-----------------------------------------------------------------------------
(* The front end's output *)

\* getCanonicalDecl: every redeclaration names one declaration of its
\* entity, which is its own canonical declaration.
CanonMaps ==
    { c \in [Decls -> Decls] : \A d \in Decls : c[d] <= d /\ c[c[d]] = c[d] }

CanonDecls(c) == { c[d] : d \in Decls }

\* The sets of at most n edges among the canonical declarations.
RECURSIVE EdgeSets(_, _)
EdgeSets(c, n) ==
    IF n = 0
    THEN { {} }
    ELSE LET smaller == EdgeSets(c, n - 1)
         IN  smaller \cup
             { E \cup {e} : E \in smaller, e \in CanonDecls(c) \X CanonDecls(c) }

\* The adjacency mapping the collector builds with uses[from].insert(to):
\* a key for every declaration that references something.
MkUses(E) ==
    [ k \in { e[1] : e \in E } |-> { e[2] : e \in { x \in E : x[1] = k } } ]

\* The edges of an adjacency mapping.
Edges(u) == { e \in (DOMAIN u) \X Decls : e[2] \in u[e[1]] }

\* The first n declarations, as a list of delayed-parsed functions.
DelayedLists(n) ==
    { [ i \in 1..k |-> i ] : k \in 0..(IF n < NumDecls THEN n ELSE NumDecls) }

\* What the collector can leave for an AST whose canonical declarations are
\* c: at most maxE edges, at most maxR roots, at most maxD delayed functions.
CollectorOutputs(c, maxE, maxR, maxD) ==
    { [ uses |-> MkUses(E), declsToKeep |-> R, delayed |-> dl ] :
        E \in EdgeSets(c, maxE),
        R \in { S \in SUBSET Decls : Cardinality(S) <= maxR },
        dl \in DelayedLists(maxD) }

\* The outputs the reachability specification starts from.
DepInputs(c) == CollectorOutputs(c, MaxEdges, NumDecls, 0)

\* The outputs of the collector in a whole run of doOptimize: one root at
\* most and one edge at most.
PipelineInputs(c) == CollectorOutputs(c, 1, 1, MaxDelayed)

-----------------------------------------------------------------------------
(* ErrorCollector *)

\* The message HandleDiagnostic builds for one diagnostic.
FormatError(d) ==
    (IF d.hasSM THEN <<d.loc, ": ">> ELSE <<>>) \o <<d.text>>

\* HandleDiagnostic with '>' for '>=': diagnostics of level Error are dropped.
HandleDiagnostic_Strict(errs, d) ==
    IF LevelRank(d.level) > LevelRank("Error")
    THEN Append(errs, FormatError(d))
    ELSE errs

\* ErrorCollector::HandleDiagnostic: errors after diagnostic d.
HandleDiagnostic(errs, d) ==
    IF LevelRank(d.level) >= LevelRank("Error")
    THEN Append(errs, FormatError(d))
    ELSE errs

\* The front end delivers diagnostic d to the consumer while it parses the
\* file or a deferred body. A suppressed diagnostic never reaches the consumer.
ReportDiagnostic ==
    /\ pc \in {"parsing", "late_loop"}
    /\ ~diagSuppress
    /\ Len(reported) < MaxDiags
    /\ \E d \in DiagInputs :
         /\ errors' = HandleDiagnostic(errors, d)
         /\ reported' = Append(reported, d)
    /\ UNCHANGED << pc, diagSuppress, suppressAll, clearedAt, srcVars, uses, lateIdx,
                    bfsVars, removedDecls, rewriteVars, result, passes, endVars,
                    runVars >>

\* ErrorCollector::clear
Clear ==
    /\ pc = "parsing"
    /\ clearedAt < Len(reported)
    /\ errors' = <<>>
    /\ clearedAt' = Len(reported)
    /\ UNCHANGED << pc, diagSuppress, suppressAll, reported, srcVars, uses, lateIdx,
                    bfsVars, removedDecls, rewriteVars, result, passes, endVars,
                    runVars >>

-----------------------------------------------------------------------------
(* OptimizerConsumer::HandleTranslationUnit *)

\* The statements of HandleTranslationUnit, in the order it runs them.
StatementOrder ==
    << "deps", "late_save", "late_loop", "bfs_init", "bfs", "prune", "prune_finalize",
       "merge_namespaces", "pp_finalize", "apply", "get_result", "htu_done" >>

Successor(order, p) == order[(CHOOSE i \in 1..Len(order) : order[i] = p) + 1]

\* HandleTranslationUnit with applyChanges called before ppCallbacks.Finalize.
After_ApplyFirst(p) ==
    Successor(<< "deps", "late_save", "late_loop", "bfs_init", "bfs", "prune",
                 "prune_finalize", "merge_namespaces", "apply", "pp_finalize",
                 "get_result", "htu_done" >>, p)

\* The statement that follows statement p.
After(p) == Successor(StatementOrder, p)

\* 0. BuildNonImplicitDeclMap, on the AST the front end hands over.
BuildNonImplicitDeclMap ==
    /\ pc = "parsing"
    /\ \E c \in CanonMaps : canon' = c
    /\ decls' = Decls
    /\ nonImplicitDecls' = Decls
    /\ passes' = Append(passes, "Indexer")
    /\ pc' = "deps"
    /\ UNCHANGED << diagSuppress, suppressAll, diagVars, uses, collected, declsToKeep,
                    delayedParsedFunctions, lateIdx, bfsVars, removedDecls,
                    rewriteVars, result, endVars, runVars >>

\* 1. DependenciesCollector::TraverseDecl
CollectDependencies ==
    /\ pc = "deps"
    /\ \E in \in PipelineInputs(canon) :
         /\ uses' = in.uses
         /\ collected' = in.uses
         /\ declsToKeep' = in.declsToKeep
         /\ delayedParsedFunctions' = in.delayed
    /\ passes' = Append(passes, "Collector")
    /\ pc' = After("deps")
    /\ UNCHANGED << diagSuppress, suppressAll, diagVars, decls, canon, nonImplicitDecls,
                    lateIdx, bfsVars, removedDecls, rewriteVars, result, endVars,
                    runVars >>

\* Save the suppress-all flag and set it.
SuppressDiagnostics ==
    /\ pc = "late_save"
    /\ suppressAll' = diagSuppress
    /\ diagSuppress' = TRUE
    /\ lateIdx' = 0
    /\ pc' = After("late_save")
    /\ UNCHANGED << diagVars, srcVars, uses, bfsVars, removedDecls, rewriteVars,
                    result, passes, endVars, runVars >>

\* One iteration of the loop over delayedParsedFunctions: LateTemplateParser.
\* What it reports is suppressed.
LateParse ==
    /\ pc = "late_loop"
    /\ lateIdx < Len(delayedParsedFunctions)
    /\ lateIdx' = lateIdx + 1
    /\ UNCHANGED << pc, diagSuppress, suppressAll, diagVars, srcVars, uses, bfsVars,
                    removedDecls, rewriteVars, result, passes, endVars, runVars >>

\* The loop is over, and diagnostics are switched back on whatever the flag was.
RestoreDiagnostics_Off ==
    /\ pc = "late_loop"
    /\ lateIdx = Len(delayedParsedFunctions)
    /\ diagSuppress' = FALSE
    /\ pc' = After("late_loop")
    /\ UNCHANGED << suppressAll, diagVars, srcVars, uses, lateIdx, bfsVars,
                    removedDecls, rewriteVars, result, passes, endVars, runVars >>

\* The loop is over: restore the flag.
RestoreDiagnostics ==
    /\ pc = "late_loop"
    /\ lateIdx = Len(delayedParsedFunctions)
    /\ diagSuppress' = suppressAll
    /\ pc' = After("late_loop")
    /\ UNCHANGED << suppressAll, diagVars, srcVars, uses, lateIdx, bfsVars,
                    removedDecls, rewriteVars, result, passes, endVars, runVars >>


\* std::map operator[]: the mapping after uses[decl], which default-constructs
\* an empty set for a key that is absent.
Subscript(u, decl) ==
    IF decl \in DOMAIN u
    THEN u
    ELSE [ k \in (DOMAIN u) \cup {decl} |-> IF k = decl THEN {} ELSE u[k] ]

Bump(n) == IF n < MaxCount THEN n + 1 ELSE MaxCount

\* The queue seeded with the roots themselves, getCanonicalDecl left out.
SeedQueue_NoCanon(roots, c) == roots

\* 2. The queue is seeded with the canonical declaration of every root.
SeedQueue(roots, c) == { c[d] : d \in roots }

BFSInit ==
    /\ pc = "bfs_init"
    /\ used' = {}
    /\ queue' = SeedQueue(declsToKeep, canon)
    /\ markCount' = [ d \in Decls |-> 0 ]
    /\ expandCount' = [ d \in Decls |-> 0 ]
    /\ pc' = After("bfs_init")
    /\ UNCHANGED << diagSuppress, suppressAll, diagVars, srcVars, uses, lateIdx,
                    removedDecls, rewriteVars, result, passes, endVars, runVars >>

\* The iteration with 'queue = uses[decl]' for the insert: the nodes waiting
\* in the queue are dropped.
VisitNode_Assign(decl) ==
    LET inserted == decl \notin used
        u == Subscript(uses, decl)
    IN  /\ used' = used \cup {decl}
        /\ IF inserted
           THEN /\ uses' = u
                /\ queue' = u[decl]
                /\ markCount' = [ markCount EXCEPT ![decl] = Bump(@) ]
                /\ expandCount' = [ expandCount EXCEPT ![decl] = Bump(@) ]
           ELSE /\ queue' = queue \ {decl}
                /\ UNCHANGED << uses, markCount, expandCount >>

\* The iteration with the erase inside the if: a node that is already used
\* stays in the queue.
VisitNode_NoErase(decl) ==
    LET inserted == decl \notin used
        u == Subscript(uses, decl)
    IN  /\ used' = used \cup {decl}
        /\ IF inserted
           THEN /\ uses' = u
                /\ queue' = (queue \ {decl}) \cup u[decl]
                /\ markCount' = [ markCount EXCEPT ![decl] = Bump(@) ]
                /\ expandCount' = [ expandCount EXCEPT ![decl] = Bump(@) ]
           ELSE UNCHANGED << queue, uses, markCount, expandCount >>

\* The iteration without the membership test: every node taken from the
\* queue is expanded.
VisitNode_AlwaysExpand(decl) ==
    LET u == Subscript(uses, decl)
    IN  /\ used' = used \cup {decl}
        /\ uses' = u
        /\ queue' = (queue \ {decl}) \cup u[decl]
        /\ markCount' = [ markCount EXCEPT ![decl] = IF decl \in used THEN @ ELSE Bump(@) ]
        /\ expandCount' = [ expandCount EXCEPT ![decl] = Bump(@) ]

\* One iteration of the while loop on the node decl = *queue.begin(): the
\* set is ordered by pointer value, so any node of the queue may be first.
VisitNode(decl) ==
    LET rest == queue \ {decl}
        inserted == decl \notin used
        u == Subscript(uses, decl)
    IN  /\ used' = used \cup {decl}
        /\ IF inserted
           THEN /\ uses' = u
                /\ queue' = rest \cup u[decl]
                /\ markCount' = [ markCount EXCEPT ![decl] = Bump(@) ]
                /\ expandCount' = [ expandCount EXCEPT ![decl] = Bump(@) ]
           ELSE /\ queue' = rest
                /\ UNCHANGED << uses, markCount, expandCount >>

BFSStep ==
    /\ pc = "bfs"
    /\ queue # {}
    /\ \E decl \in queue : VisitNode(decl)
    /\ UNCHANGED << pc, diagSuppress, suppressAll, diagVars, srcVars, lateIdx,
                    removedDecls, rewriteVars, result, passes, endVars, runVars >>

\* The queue is empty: the loop ends.
BFSDone ==
    /\ pc = "bfs"
    /\ queue = {}
    /\ passes' = Append(passes, "Reachability")
    /\ pc' = After("bfs")
    /\ UNCHANGED << diagSuppress, suppressAll, diagVars, srcVars, uses, lateIdx,
                    bfsVars, removedDecls, rewriteVars, result, endVars, runVars >>

\* The edits a pass adds, with the pass and the state of the run noted.
Schedule(pass, new) ==
    /\ edits' = edits \cup new
    /\ editLog' = editLog \cup
         { [ pass |-> pass, edit |-> e, afterApply |-> applied,
             queueEmpty |-> (queue = {}), usedThen |-> used ] : e \in new \ edits }

\* The lexical declarations the pruner removes: those whose canonical
\* declaration is not used.
Unused(ds, c, u) == { d \in ds : c[d] \notin u }

\* 3. OptimizerVisitor::TraverseDecl
LexicalPruner ==
    /\ pc = "prune"
    /\ removedDecls' = Unused(decls, canon, used)
    /\ Schedule("LexicalPruner", { DeclText(d) : d \in Unused(decls, canon, used) })
    /\ passes' = Append(passes, "LexicalPruner")
    /\ pc' = After("prune")
    /\ UNCHANGED << diagSuppress, suppressAll, diagVars, srcVars, uses, lateIdx,
                    bfsVars, applied, hasRewriteBuf, rewriteBuf, bufferInvalid,
                    result, endVars, runVars >>

\* OptimizerVisitor::Finalize
PrunerFinalize ==
    /\ pc = "prune_finalize"
    /\ passes' = Append(passes, "LexicalPrunerFinalize")
    /\ pc' = After("prune_finalize")
    /\ UNCHANGED << diagSuppress, suppressAll, diagVars, srcVars, uses, lateIdx,
                    bfsVars, removedDecls, rewriteVars, result, endVars, runVars >>

\* MergeNamespacesVisitor::TraverseDecl
MergeNamespaces ==
    /\ pc = "merge_namespaces"
    /\ passes' = Append(passes, "NamespaceNormalizer")
    /\ pc' = After("merge_namespaces")
    /\ UNCHANGED << diagSuppress, suppressAll, diagVars, srcVars, uses, lateIdx,
                    bfsVars, removedDecls, rewriteVars, result, endVars, runVars >>

\* 4, 5. RemoveInactivePreprocessorBlocks::Finalize: the block of the main
\* file is removed when it was inactive and its macro is not kept.
PPFinalize ==
    /\ pc = "pp_finalize"
    /\ \E inactive \in BOOLEAN :
         Schedule("PPFinalize", IF inactive THEN {PPBlock} ELSE {})
    /\ passes' = Append(passes, "PPFinalize")
    /\ pc' = After("pp_finalize")
    /\ UNCHANGED << diagSuppress, suppressAll, diagVars, srcVars, uses, lateIdx,
                    bfsVars, removedDecls, applied, hasRewriteBuf, rewriteBuf,
                    bufferInvalid, result, endVars, runVars >>

\* The text left when the scheduled ranges are deleted.
ApplyEdits(text, es) == SelectSeq(text, LAMBDA t : t \notin es)

\* SmartRewriter::applyChanges: the Rewriter gets a buffer for the main file
\* with its first change.
ApplyChanges ==
    /\ pc = "apply"
    /\ applied' = TRUE
    /\ hasRewriteBuf' = (edits # {})
    /\ rewriteBuf' = IF edits # {} THEN ApplyEdits(OriginalText, edits) ELSE <<>>
    /\ passes' = Append(passes, "ApplyChanges")
    /\ pc' = After("apply")
    /\ UNCHANGED << diagSuppress, suppressAll, diagVars, srcVars, uses, lateIdx,
                    bfsVars, removedDecls, edits, editLog, bufferInvalid, result,
                    endVars, runVars >>

\* getResult without the rewrite-buffer branch.
getResult_IgnoreBuffer(hasBuf, buf, invalid, original) ==
    IF invalid THEN <<"Inliner error">> ELSE original

\* OptimizerConsumer::getResult
getResult(hasBuf, buf, invalid, original) ==
    IF hasBuf THEN buf
    ELSE IF invalid THEN <<"Inliner error">>
    ELSE original

\* result = getResult(); getBufferData sets 'invalid' when it is asked.
StoreResult ==
    /\ pc = "get_result"
    /\ \E invalid \in BOOLEAN :
         /\ bufferInvalid' = (~hasRewriteBuf /\ invalid)
         /\ result' = getResult(hasRewriteBuf, rewriteBuf, invalid, OriginalText)
    /\ passes' = Append(passes, "GetResult")
    /\ pc' = After("get_result")
    /\ UNCHANGED << diagSuppress, suppressAll, diagVars, srcVars, uses, lateIdx,
                    bfsVars, removedDecls, edits, editLog, applied, hasRewriteBuf,
                    rewriteBuf, endVars, runVars >>

-----------------------------------------------------------------------------
(* Optimizer::doOptimize *)

\* The front end fails before the consumer is given the translation unit.
FrontEndAbort ==
    /\ pc = "parsing"
    /\ \E r \in {1, 2} : ret' = r
    /\ pc' = "tool_returned"
    /\ UNCHANGED << diagSuppress, suppressAll, diagVars, srcVars, uses, lateIdx,
                    bfsVars, removedDecls, rewriteVars, result, passes, outcome,
                    returned, message, runVars >>

\* tool.run returns: non-zero when the consumer counted an error.
ToolReturn ==
    /\ pc = "htu_done"
    /\ \E r \in (IF Len(errors) > 0 THEN {1} ELSE {0, 1}) : ret' = r
    /\ pc' = "tool_returned"
    /\ UNCHANGED << diagSuppress, suppressAll, diagVars, srcVars, uses, lateIdx,
                    bfsVars, removedDecls, rewriteVars, result, passes, outcome,
                    returned, message, runVars >>

\* The character that ends a C string.
NulChar == "<NUL>"

\* std::string::c_str, read back as a C string: up to the first NUL.
RECURSIVE CStr(_)
CStr(s) ==
    IF s = <<>> \/ Head(s) = NulChar THEN <<>> ELSE <<Head(s)>> \o CStr(Tail(s))

\* The message doOptimize builds from the collected errors.
FailureMessage(errs) ==
    <<"Inliner failed.">> \o
    (IF errs # <<>>
     THEN <<" The following compilation errors were detected: ">> \o
          Flatten([ i \in 1..Len(errs) |-> errs[i] \o <<"\n">> ])
     ELSE <<>>)

\* ret != 0: throw std::runtime_error(message.c_str())
Throw ==
    /\ pc = "tool_returned"
    /\ ret # 0
    /\ message' = CStr(FailureMessage(errors))
    /\ outcome' = "threw"
    /\ pc' = "done"
    /\ UNCHANGED << diagSuppress, suppressAll, diagVars, srcVars, uses, lateIdx,
                    bfsVars, removedDecls, rewriteVars, result, passes, ret,
                    returned, runVars >>

\* ret == 0: return result
Return ==
    /\ pc = "tool_returned"
    /\ ret = 0
    /\ returned' = <<result>>
    /\ outcome' = "returned"
    /\ pc' = "done"
    /\ UNCHANGED << diagSuppress, suppressAll, diagVars, srcVars, uses, lateIdx,
                    bfsVars, removedDecls, rewriteVars, result, passes, ret,
                    message, runVars >>

-----------------------------------------------------------------------------
(* The run on the pruned output *)

\* The dependency graph of the output: the edges among the declarations kept.
Restrict(u, kept) ==
    MkUses({ e \in Edges(u) : e[1] \in kept /\ e[2] \in kept })

\* The pruned output is given to the pipeline again, with the same roots.
Rerun ==
    /\ pc = "prune_finalize"
    /\ run = 1
    /\ LET kept == decls \ removedDecls
       IN  /\ decls' = kept
           /\ nonImplicitDecls' = kept
           /\ uses' = Restrict(uses, kept)
           /\ collected' = Restrict(uses, kept)
           /\ declsToKeep' = declsToKeep \cap kept
    /\ usedRun1' = used
    /\ rootsRun1' = declsToKeep
    /\ run' = 2
    /\ UNCHANGED priorSuppress
    /\ removedDecls' = {}
    /\ pc' = "bfs_init"
    /\ UNCHANGED << diagSuppress, suppressAll, diagVars, canon, delayedParsedFunctions,
                    lateIdx, bfsVars, rewriteVars, result, passes, endVars >>

-----------------------------------------------------------------------------
(* Specifications *)

\* doOptimize has built the tool; the front end starts on the file.
Init ==
    /\ pc = "parsing"
    /\ diagSuppress \in BOOLEAN
    /\ priorSuppress = diagSuppress
    /\ suppressAll = FALSE
    /\ errors = <<>>
    /\ reported = <<>>
    /\ clearedAt = 0
    /\ decls = {}
    /\ canon = [ d \in Decls |-> d ]
    /\ nonImplicitDecls = {}
    /\ uses = MkUses({})
    /\ collected = MkUses({})
    /\ declsToKeep = {}
    /\ delayedParsedFunctions = <<>>
    /\ lateIdx = 0
    /\ queue = {}
    /\ used = {}
    /\ markCount = [ d \in Decls |-> 0 ]
    /\ expandCount = [ d \in Decls |-> 0 ]
    /\ removedDecls = {}
    /\ edits = {}
    /\ editLog = {}
    /\ applied = FALSE
    /\ hasRewriteBuf = FALSE
    /\ rewriteBuf = <<>>
    /\ bufferInvalid = FALSE
    /\ result = <<>>
    /\ passes = <<>>
    /\ ret = 0
    /\ outcome = "running"
    /\ returned = <<>>
    /\ message = <<>>
    /\ run = 1
    /\ usedRun1 = {}
    /\ rootsRun1 = {}

Next ==
    \/ ReportDiagnostic
    \/ Clear
    \/ FrontEndAbort
    \/ BuildNonImplicitDeclMap
    \/ CollectDependencies
    \/ SuppressDiagnostics
    \/ LateParse
    \/ RestoreDiagnostics
    \/ BFSInit
    \/ BFSStep
    \/ BFSDone
    \/ LexicalPruner
    \/ PrunerFinalize
    \/ MergeNamespaces
    \/ PPFinalize
    \/ ApplyChanges
    \/ StoreResult
    \/ ToolReturn
    \/ Throw
    \/ Return

Spec == Init /\ [][Next]_vars

\* HandleTranslationUnit is about to start the reachability pass, on the AST
\* and the collector output in, nothing having been reported.
InitReach ==
    /\ pc = "bfs_init"
    /\ diagSuppress = FALSE
    /\ priorSuppress = FALSE
    /\ suppressAll = FALSE
    /\ errors = <<>>
    /\ reported = <<>>
    /\ clearedAt = 0
    /\ decls = Decls
    /\ canon \in CanonMaps
    /\ nonImplicitDecls = Decls
    /\ \E in \in DepInputs(canon) :
         /\ uses = in.uses
         /\ collected = in.uses
         /\ declsToKeep = in.declsToKeep
         /\ delayedParsedFunctions = in.delayed
    /\ lateIdx = 0
    /\ queue = {}
    /\ used = {}
    /\ markCount = [ d \in Decls |-> 0 ]
    /\ expandCount = [ d \in Decls |-> 0 ]
    /\ removedDecls = {}
    /\ edits = {}
    /\ editLog = {}
    /\ applied = FALSE
    /\ hasRewriteBuf = FALSE
    /\ rewriteBuf = <<>>
    /\ bufferInvalid = FALSE
    /\ result = <<>>
    /\ passes = <<"Indexer", "Collector">>
    /\ ret = 0
    /\ outcome = "running"
    /\ returned = <<>>
    /\ message = <<>>
    /\ run = 1
    /\ usedRun1 = {}
    /\ rootsRun1 = {}

NextReach ==
    \/ BFSInit
    \/ BFSStep
    \/ BFSDone
    \/ LexicalPruner
    \/ Rerun

SpecReach == InitReach /\ [][NextReach]_vars

\* The loop is sequential code: its next iteration is always taken.
SpecReachFair == SpecReach /\ WF_vars(NextReach)

-----------------------------------------------------------------------------
(* Properties *)

\* The nodes reachable from S by zero or more edges of E.
RECURSIVE ReachableFrom(_, _)
ReachableFrom(S, E) ==
    LET more == S \cup { e[2] : e \in { x \in E : x[1] \in S } }
    IN  IF more = S THEN S ELSE ReachableFrom(more, E)

\* The Used Set that the graph left by the collector and the roots call for.
ExpectedUsed == ReachableFrom({ canon[d] : d \in declsToKeep }, Edges(collected))

LoopOver == (pc = "bfs" /\ queue = {}) \/ pc \in {"prune", "prune_finalize"}

\* C1: when the queue is empty, whatever the order in which the nodes were
\* taken from it, the Used Set is exactly the set of nodes reachable by zero
\* or more edges from the canonical declarations of the roots.
C1_UsedIsReachable == LoopOver => used = ExpectedUsed

\* A run that ended with a used self-referencing node, two used nodes or more,
\* and a declaration that is not used.
C1_Witness ==
    /\ pc = "prune"
    /\ run = 1
    /\ Cardinality(used) >= 2
    /\ \E d \in used : <<d, d>> \in Edges(collected)
    /\ \E d \in Decls : canon[d] \notin used

\* C2: the reachability loop terminates on every graph, cyclic ones too:
\* once the loop is entered, the queue becomes empty.
C2_Terminates == (pc = "bfs_init") ~> (pc = "bfs" /\ queue = {})

\* The loop has ended on a graph with a cycle of two used nodes, so that a
\* used node was put in the queue again.
C2_Witness ==
    /\ pc = "bfs"
    /\ queue = {}
    /\ \E d, e \in used :
         d # e /\ <<d, e>> \in Edges(collected) /\ <<e, d>> \in Edges(collected)

\* The diagnostics the collector holds: those delivered since the last clear.
Collected == SubSeq(reported, clearedAt + 1, Len(reported))

IsError(d) == d.level \in {"Error", "Fatal"}

\* The failure message for the diagnostics ds: each one of level Error or
\* Fatal, in the order delivered, and no other.
ExpectedMessage(ds) ==
    LET es == SelectSeq(ds, IsError)
    IN  <<"Inliner failed.">> \o
        (IF es = <<>>
         THEN <<>>
         ELSE <<" The following compilation errors were detected: ">> \o
              Flatten([ i \in 1..Len(es) |-> FormatError(es[i]) \o <<"\n">> ]))

C4_NoErrorStringReturned ==
    outcome = "returned" =>
        returned \in { <<OriginalText>>, <<ApplyEdits(OriginalText, edits)>> }

\* C5: with no rewrite buffer for the main file (no edit was scheduled) and
\* a valid buffer the result is the original text; with a rewrite buffer
\* (an edit was applied) it is the content of that buffer.
C5_ResultText ==
    pc = "htu_done" =>
        /\ (~hasRewriteBuf /\ ~bufferInvalid) => result = OriginalText
        /\ hasRewriteBuf => result = rewriteBuf

\* A run with no edit at all and a valid buffer.
C5_Witness ==
    /\ pc = "htu_done"
    /\ edits = {}
    /\ ~hasRewriteBuf
    /\ ~bufferInvalid
    /\ result = OriginalText

\* C6: the run on the pruned output, with the same roots, computes the same
\* Used Set and removes no declaration.
C6_Idempotent ==
    (run = 2 /\ pc = "prune_finalize") =>
        /\ used = usedRun1
        /\ removedDecls = {}
        /\ declsToKeep = rootsRun1

\* The second run has ended, on an output that lost declarations and kept
\* an edge.
C6_Witness ==
    /\ run = 2
    /\ pc = "prune_finalize"
    /\ decls # Decls
    /\ Edges(collected) # {}
    /\ used # {}

\* C8: the reachability loop leaves the adjacency mapping, its keys and the
\* edge set of every key, as the collector left it.
C8_GraphUnchanged == uses = collected

\* C9 (state part): a node is marked once and expanded once at most, and the
\* marked nodes are the Used Set.
C9_Counts ==
    pc \in {"bfs", "prune", "prune_finalize"} =>
        \A d \in Decls :
            /\ markCount[d] <= 1
            /\ expandCount[d] <= 1
            /\ (markCount[d] = 1) <=> (d \in used)

GrowsOnly ==
    /\ used \subseteq used'
    /\ \A d \in queue \cap used : expandCount'[d] = expandCount[d]

\* C9: during reachability each node is marked exactly once and expanded at
\* most once, a node taken from the queue when already used is not expanded,
\* and the Used Set only grows while the loop runs.
C9_MarkedOnce ==
    /\ []C9_Counts
    /\ [][pc = "bfs" => GrowsOnly]_vars

\* The loop has ended on a graph in which a used node references itself and
\* another used node references it.
C9_Witness ==
    /\ pc = "bfs"
    /\ queue = {}
    /\ \E d \in used :
         /\ <<d, d>> \in Edges(collected)
         /\ expandCount[d] = 1
         /\ \E e \in used \ {d} : <<e, d>> \in Edges(collected)

\* The passes of HandleTranslationUnit, in order.
PassOrder ==
    << "Indexer", "Collector", "Reachability", "LexicalPruner", "LexicalPrunerFinalize",
       "NamespaceNormalizer", "PPFinalize", "ApplyChanges", "GetResult" >>

\* C7 (state part): the passes run so far are a prefix of the order, all of
\* them have run when HandleTranslationUnit is over, no edit was scheduled
\* after applyChanges, and the pruner scheduled its edits with the loop over
\* and the Used Set complete.
C7_Passes ==
    /\ Len(passes) <= Len(PassOrder)
    /\ passes = SubSeq(PassOrder, 1, Len(passes))
    /\ pc \in {"htu_done"} => passes = PassOrder
    /\ \A l \in editLog :
         /\ ~l.afterApply
         /\ l.pass = "LexicalPruner" => (l.queueEmpty /\ l.usedThen = ExpectedUsed)

PrunerOver == pc \in {"pp_finalize", "apply", "get_result", "htu_done"}

\* C7: the passes happen in order, each once; the Used Set is complete before
\* the pruner schedules an edit, the Removed-Declarations Set does not change
\* once the preprocessor pruner finalizes, and no edit is scheduled after
\* applyChanges.
C7_PassOrder ==
    /\ []C7_Passes
    /\ [][applied => edits' = edits]_vars
    /\ [][PrunerOver => removedDecls' = removedDecls]_vars

\* HandleTranslationUnit is over, the pruner and the preprocessor pruner
\* have each scheduled an edit.
C7_Witness ==
    /\ pc = "htu_done"
    /\ \E l \in editLog : l.pass = "LexicalPruner"
    /\ \E l \in editLog : l.pass = "PPFinalize"
    /\ used # {}

\* C10: the flag is set while the deferred bodies are parsed and has its
\* prior value once the loop is done, and before it.
C10_FlagRestored ==
    /\ pc = "late_loop" => diagSuppress
    /\ pc # "late_loop" => diagSuppress = priorSuppress

\* The loop has parsed a deferred body and the flag, clear before, is clear.
C10_Witness ==
    /\ pc = "bfs_init"
    /\ lateIdx >= 1
    /\ ~priorSuppress
    /\ ~diagSuppress

=============================================================================
